---- MODULE Spec2Model ----
(***************************************************************************)
(* A model of the apex CLI code generator (package cli):                   *)
(*   - GenerateCmd.Run / generateConfig / generate / formatTypeScript      *)
(*     (src/generate.go), driven by `apex generate` (Spec) and by the      *)
(*     watcher's event handler (SpecWatch, src/unnamed/part_000);          *)
(*   - the per-target config merge of generate (SpecMerge);                *)
(*   - the resolver callback of generate (SpecResolver);                   *)
(*   - the Astyle wasm bridge (SpecAstyle, src/astyle.go);                 *)
(*   - the watch lists of WatchCmd.Run (SpecSync, src/unnamed/part_000);   *)
(*   - archive extraction of InstallCmd (SpecExtract,                      *)
(*     src/unnamed/part_002).                                              *)
(***************************************************************************)
EXTENDS Integers, Sequences, FiniteSets, TLC

VARIABLES
  \* ---- GenerateCmd (Run, generateConfig, generate, formatTypeScript)
  entry,      \* which caller drives the GenerateCmd: "run" | "watch" | "none"
  configs,    \* the Config documents handed to generate, in order
  ci,         \* index of the config generate is (or was last) working on
  pc,         \* control point of the command
  todo,       \* map keys the current range loop has not visited yet
  cmdAt,      \* <<target, number of its runAfter commands already run>>
  merr,       \* generate's local merr
  retval,     \* the error a returning generate hands to its caller
  runMerr,    \* Run's merr
  runErr,     \* Run's err (the result of readConfigs)
  result,     \* what Run returned, once pc = "done"
  sessions,   \* per-target js sessions of the current generate call
  prettier,   \* c.prettier and c.once
  exists,     \* destination files present on disk
  faults,     \* failures the environment may still produce
  hist,       \* how often each observable step has happened
  \* ---- the config merge of generate, on one loaded Config
  shared,     \* config.Config
  tconf,      \* config.Generates[tfile].Config, the map the loaded Config holds
  loaded,     \* tconf as readConfigs loaded it
  tfile,      \* the target's destination filename
  configMap,  \* the map the last j.Invoke("generate", spec, configMap) got
  calls,      \* generate calls made on the loaded Config
  \* ---- the resolver callback of generate
  rfs,        \* the definitions directory: path -> "absent" | "file" | "dir"
  rargs,      \* info.Args() of the call
  rret,       \* the string the callback returned
  rreads,     \* the paths the callback passed to os.ReadFile
  rpc,        \* "ready" | "done" | "finished"
  rout,       \* what the script's resolver did: threw or returned a text
  \* ---- one call of Astyle
  asrc,       \* source, a sequence of characters
  aopts,      \* options, a sequence of characters
  amem,       \* the module's linear memory, address -> byte
  apc,        \* position in Astyle
  asize,      \* bufferSize, once computed
  abase,      \* bufferPointer
  afp,        \* formattedPointer
  aflag,      \* result[0] of the format call
  abuf,       \* resultBuf
  atext,      \* formattedBytes
  aret,       \* what Astyle returned
  afrees,     \* the pointers passed to free_buffer, in order
  alive,      \* the pointers allocated in the module and not freed
  awrites,    \* the writes made to the memory, in order
  aclosed,    \* the deferred module.Close has run
  \* ---- one call of translateStackTrace
  ttrace,     \* stackTrace
  tsmap,      \* the entries of the source map
  tcwd,       \* the working directory can be read
  tout,       \* the string returned
  tpc,        \* "ready" | "done"
  \* ---- WatchCmd.Run: the config files, the two watchers and the captured err
  wfiles,     \* what readConfigs finds in each file of c.Configs
  wconfigs,   \* the map configs: config file -> the spec files of its documents
  cwatched,   \* configWatcher.WatchList()
  watched,    \* specWatcher.WatchList()
  werr,       \* the variable err of Run that the closures capture
  wlast,      \* what the last call of syncWatchers returned: "none" | "ok" | "err"
  wpc,        \* where each goroutine of Run is
  wsync,      \* the locals of the syncWatchers call of each goroutine
  wn,         \* config write events handled
  wlog,       \* the "Watching ..." and "Unwatching ..." lines logged so far
  \* ---- one call of extractZip or extractTarball
  xkind,      \* "zip" | "tar"
  xdest,      \* dest, a sequence of path elements below the root
  xentries,   \* the entries of the archive, in order
  xi,         \* entries handled
  xmade,      \* the paths created or written
  xret        \* "running" | "nil" | "err"

genVars == <<entry, configs, ci, pc, todo, cmdAt, merr, retval, runMerr,
             runErr, result, sessions, prettier, exists, faults, hist>>

mergeVars == <<shared, tconf, loaded, tfile, configMap, calls>>

resVars == <<rfs, rargs, rret, rreads, rpc, rout>>

astVars ==
  <<asrc, aopts, amem, apc, asize, abase, afp, aflag, abuf, atext, aret, afrees,
    alive, awrites, aclosed>>

traceVars == <<ttrace, tsmap, tcwd, tout, tpc>>

watchVars ==
  <<wfiles, wconfigs, cwatched, watched, werr, wlast, wpc, wsync, wn, wlog>>

extractVars == <<xkind, xdest, xentries, xi, xmade, xret>>

vars == <<genVars, mergeVars, resVars, astVars, traceVars, watchVars, extractVars>>

NotGen == <<mergeVars, resVars, astVars, traceVars, watchVars, extractVars>>

NotMerge == <<genVars, resVars, astVars, traceVars, watchVars, extractVars>>

NotRes == <<genVars, mergeVars, astVars, traceVars, watchVars, extractVars>>

NotAst == <<genVars, mergeVars, resVars, traceVars, watchVars, extractVars>>

NotTrace == <<genVars, mergeVars, resVars, astVars, watchVars, extractVars>>

NotWatch == <<genVars, mergeVars, resVars, astVars, traceVars, extractVars>>

NotExtract == <<genVars, mergeVars, resVars, astVars, traceVars, watchVars>>

----------------------------------------------------------------------------
(* Bounds of the model *)

\* Targets in all config documents of an invocation together.
MaxTargets == 2

\* runAfter commands in all targets of an invocation together.
MaxCmds == 1

\* runAfter commands of the single config document of SpecOne.
MaxRunAfter == 2

\* generate calls on one loaded Config (the watcher calls generateConfig
\* with the same Config at every spec event).
MaxCalls == 2

\* Failures of the environment (file system, bundler, sandbox, child
\* processes) in one invocation.
MaxFaults == 1

\* Characters in the source and in the options given to Astyle.
MaxStr == 1

\* Frame lines after the first line of a stack trace.
MaxFrames == 1

\* Write events on config files that one run of `apex watch` handles.
MaxReloads == 2

\* Entries of an archive.
MaxEntries == 2

\* Path elements of an archive entry's name.
MaxElems == 2

----------------------------------------------------------------------------
(* Data *)

\* Positions of the config documents in the config file (split at "---").
Docs == {1, 2}

\* Destination filenames (keys of Config.Generates) the model draws from:
\* one formatted in process, one formatted by an external executable.
Files == {"a.ts", "b.go"}

\* Destination filenames for the formatter switch: one per extension the
\* switch names, and one it does not name.
AllFiles ==
  Files \cup {"c.cs", "d.java", "e.c", "f.cpp", "g.c++", "h.h", "i.hpp", "j.h++",
              "k.m", "l.txt"}

\* filepath.Ext of the filenames above: the suffix from the last dot on.
Ext(f) ==
  CASE f = "a.ts" -> ".ts"
    [] f = "b.go" -> ".go"
    [] f = "c.cs" -> ".cs"
    [] f = "d.java" -> ".java"
    [] f = "e.c" -> ".c"
    [] f = "f.cpp" -> ".cpp"
    [] f = "g.c++" -> ".c++"
    [] f = "h.h" -> ".h"
    [] f = "i.hpp" -> ".hpp"
    [] f = "j.h++" -> ".h++"
    [] f = "k.m" -> ".m"
    [] f = "l.txt" -> ".txt"

\* Target: Module is "" or a module name, IfNotExists, len(RunAfter).
\* generate never reads IfNotExists of a target without a module, so the
\* flag is drawn only for targets that have one.
TargetsUpTo(k) ==
  {t \in [Module : {"", "mod"}, IfNotExists : BOOLEAN, RunAfter : 0..k] :
     t.Module = "" => ~t.IfNotExists}

Targets == TargetsUpTo(MaxCmds)

\* The number of runAfter commands of a Config.Generates map.
RECURSIVE CommandsOf(_)
CommandsOf(g) ==
  IF DOMAIN g = {} THEN 0
  ELSE LET f == CHOOSE x \in DOMAIN g : TRUE
       IN g[f].RunAfter + CommandsOf([x \in DOMAIN g \ {f} |-> g[x]])

\* Config.Generates with at most t targets and k commands: a non-empty map
\* (readConfigs rejects an empty one).
GeneratesSet(t, k) ==
  {g \in UNION {[S -> TargetsUpTo(k)] :
                  S \in {T \in SUBSET Files : T # {} /\ Cardinality(T) <= t}} :
     CommandsOf(g) <= k}

\* The config documents of one invocation: at most n documents (readConfigs
\* returns at least one) with at most t targets and k commands in all.
RECURSIVE ConfigListsOf(_, _, _)
ConfigListsOf(n, t, k) ==
  IF n = 0 \/ t = 0 THEN {<<>>}
  ELSE {<<>>} \cup
       UNION {{<<g>> \o rest :
                 rest \in ConfigListsOf(n - 1, t - Cardinality(DOMAIN g), k - CommandsOf(g))} :
              g \in GeneratesSet(t, k)}

ConfigLists == ConfigListsOf(Cardinality(Docs), MaxTargets, MaxCmds) \ {<<>>}

\* Files generate may stat: the IfNotExists targets that have a module.
StatFiles(cs) ==
  {f \in AllFiles : \E i \in 1..Len(cs) :
     f \in DOMAIN cs[i] /\ cs[i][f].IfNotExists /\ cs[i][f].Module # ""}

----------------------------------------------------------------------------
(* Errors.  An error value is the sequence of its leaf errors: <<>> is nil, *)
(* a one-element sequence is a plain error, a longer one is a multierr     *)
(* aggregate (multierr never builds an aggregate of one).                  *)

NilErr == <<>>

NewErr(msg, c, f) == <<[msg |-> msg, cfg |-> c, file |-> f, n |-> 0]>>

\* fmt.Errorf("generation failed due to %d error(s)", n)
SummaryErr(n) ==
  <<[msg |-> "generation failed due to %d error(s)", cfg |-> 0, file |-> "", n |-> n]>>

\* multierr.Append(left, right): nil is the unit, aggregates are flattened.
Append2(left, right) ==
  IF left = NilErr THEN right
  ELSE IF right = NilErr THEN left
  ELSE left \o right

\* err.(errorGroup): only a multierr aggregate has Errors(); nil has no type.
IsErrorGroup(err) == Len(err) >= 2

\* An observable step: op on target f of config number c (arg: detail).
Ev(op, c, f, arg) == [op |-> op, cfg |-> c, file |-> f, arg |-> arg, k |-> 0]

\* The k-th runAfter command of target f is run.
CommandEv(c, f, k) == [op |-> "command", cfg |-> c, file |-> f, arg |-> "", k |-> k]

Count(h, e) == IF e \in DOMAIN h THEN h[e] ELSE 0

Bump(h, e) == IF e \in DOMAIN h THEN [h EXCEPT ![e] = @ + 1] ELSE h @@ (e :> 1)

\* The state a step of generate reads and writes.
GenState(m, h, ss, p, ex, fl) ==
  [merr |-> m, hist |-> h, sessions |-> ss, prettier |-> p, exists |-> ex, faults |-> fl]

Did(s, op, c, f, arg) == [s EXCEPT !.hist = Bump(@, Ev(op, c, f, arg))]

\* One failure of the environment is used up.
Fault(s) == [s EXCEPT !.faults = @ - 1]

\* appendAndPrintError: print the new error, then multierr.Append it.
AppendAndPrintError(s, msg, c, f) ==
  [Did(s, "print", c, f, msg) EXCEPT !.merr = Append2(@, NewErr(msg, c, f))]

\* How the loop body of generate ends for one target.
Continue(s) == [kind |-> "continue", ret |-> NilErr, s |-> s]

ReturnErr(s, msg, c, f) == [kind |-> "return", ret |-> NewErr(msg, c, f), s |-> s]

Panic(s) == [kind |-> "panic", ret |-> NilErr, s |-> s]

----------------------------------------------------------------------------
(* formatTypeScript and the formatter session c.prettier *)

\* c.prettier.Dispose() under `if c.prettier != nil` (deferred by Run and by
\* generateConfig).  The field is not reset to nil.
DisposePrettier(p, h) ==
  IF p.ptr # "nil"
  THEN [prettier |-> [p EXCEPT !.ptr = "disposed"],
        hist |-> Bump(h, Ev("prettier.dispose", 0, "", p.ptr))]
  ELSE [prettier |-> p, hist |-> h]

\* formatTypeScript(source): the outcomes {ok, err, panic} with the state after.
\* c.once.Do compiles the session on the first call only; a later call finds
\* err == nil and invokes c.prettier whatever state it is in: a nil pointer
\* panics, and what a disposed isolate does is undefined.
FormatTypeScript(s) ==
  LET p == s.prettier IN
  IF ~p.once
  THEN LET made == [Did(s, "prettier.compile", 0, "", "ok")
                      EXCEPT !.prettier = [once |-> TRUE, ptr |-> "live"]]
           used == Did(made, "prettier.invoke", 0, "", "live")
       IN {[res |-> "ok", s |-> used]}
          \cup (IF s.faults > 0
                THEN {[res |-> "err", s |-> Fault(used)],
                      [res |-> "err",
                       s |-> Fault([Did(s, "prettier.compile", 0, "", "failed")
                                      EXCEPT !.prettier = [once |-> TRUE, ptr |-> "nil"]])]}
                ELSE {})
  ELSE LET used == Did(s, "prettier.invoke", 0, "", p.ptr) IN
       CASE p.ptr = "nil" -> {[res |-> "panic", s |-> used]}
         [] p.ptr = "disposed" ->
              {[res |-> "ok", s |-> used], [res |-> "err", s |-> used],
               [res |-> "panic", s |-> used]}
         [] p.ptr = "live" ->
              {[res |-> "ok", s |-> used]}
              \cup (IF s.faults > 0 THEN {[res |-> "err", s |-> Fault(used)]} ELSE {})

----------------------------------------------------------------------------
(* The loop body of generate for one target, stage by stage (last first) *)

\* The formatter the switch on filepath.Ext(filename) selects.
Formatter(ext) ==
  CASE ext = ".ts" -> "prettier"
    [] ext = ".cs" -> "astyle.cs"
    [] ext \in {".java", "c", "cpp", "c++", "h", "hpp", "h++", "m"} -> "astyle.google"
    [] OTHER -> "none"

\* The external formatter the post-format pass runs for an extension.
ExternalFormatter(ext) ==
  CASE ext = ".rs" -> "rustfmt"
    [] ext = ".go" -> "gofmt"
    [] ext = ".py" -> "yapf"
    [] OTHER -> "none"

\* os.MkdirAll(dir) then os.WriteFile(filename, source, fileMode).
WriteStage(s, c, f) ==
  LET d == Did(s, "mkdir", c, f, "")
      w == Did(d, "write", c, f, "")
  IN {Continue([w EXCEPT !.exists = @ \cup {f}])}
     \cup (IF s.faults > 0
           THEN {Continue(AppendAndPrintError(Fault(d), "Error creating directory", c, f)),
                 Continue(AppendAndPrintError(Fault(w), "Error writing file", c, f))}
           ELSE {})

\* switch ext: format the generated source.
FormatStage(s, c, f) ==
  LET fm == Formatter(Ext(f))
      d == Did(s, "format", c, f, fm)
  IN CASE fm = "none" -> WriteStage(s, c, f)
       [] fm = "prettier" ->
            UNION {CASE o.res = "ok" -> WriteStage(o.s, c, f)
                     [] o.res = "err" ->
                          {Continue(AppendAndPrintError(o.s, "Error formatting TypeScript", c, f))}
                     [] o.res = "panic" -> {Panic(o.s)}
                   : o \in FormatTypeScript(d)}
       [] fm = "astyle.cs" ->
            WriteStage(d, c, f)
            \cup (IF s.faults > 0
                  THEN {Continue(AppendAndPrintError(Fault(d), "Error formatting C#", c, f))}
                  ELSE {})
       [] fm = "astyle.google" ->
            WriteStage(d, c, f)
            \cup (IF s.faults > 0
                  THEN {Continue(AppendAndPrintError(Fault(d),
                                   "Error formatting Java/C/C++/Objective-C", c, f))}
                  ELSE {})

\* j.Invoke("generate", spec, configMap) and source := res.(string).  Invoke
\* returns a value that is not a string (an int32, or the *v8go.Value) with a
\* nil error, and the type assertion without ", ok" panics on it.
InvokeStage(s, c, f) ==
  LET d == Did(s, "invoke", c, f, "")
  IN FormatStage(d, c, f)
     \cup (IF s.faults > 0
           THEN {Continue(AppendAndPrintError(Fault(d), "translated stack trace", c, f)),
                 Continue(AppendAndPrintError(Fault(d), "Generation error", c, f)),
                 Panic(Fault(Did(d, "result.nonstring", c, f, "")))}
           ELSE {})

\* A defer that keeps only the newest session (one slot, overwritten).
DeferDisposeNewestOnly(ss, f) == <<f>>

\* defer j.Dispose(): the call is pushed, and runs when generate returns.
DeferDispose(ss, f) == <<f>> \o ss

\* js.Compile(source, globals): every call makes an isolate with
\* v8go.NewIsolate (the "compile" event), then the context, the console
\* instance and the two RunScript calls.  Each of the last three can fail,
\* and the failure returns (nil, err) with no iso.Dispose(): only
\* JS.Dispose, on a returned session, closes the context and the isolate.
Compile(s, c, f) ==
  LET iso == Did(s, "compile", c, f, "")
  IN {[ok |-> TRUE, s |-> iso]}
     \cup (IF s.faults > 0
           THEN {[ok |-> FALSE, s |-> Fault(Did(iso, "compile.failed", c, f, ""))]}
           ELSE {})

\* js.Compile(bundle, resolverCallback) and defer j.Dispose().
CompileStage(s, c, f) ==
  UNION {IF o.ok
         THEN InvokeStage([Did(o.s, "session", c, f, "")
                             EXCEPT !.sessions = DeferDispose(@, f)], c, f)
         ELSE {Continue(AppendAndPrintError(o.s, "Compilation error", c, f))}
         : o \in Compile(s, c, f)}

\* What generate does when the bundler fails for a target.
BundleFailure(s, msg, c, f) == ReturnErr(s, msg, c, f)

\* api.Build, the output file count, sourcemap.Parse.
BundleStage(s, c, f) ==
  LET d == Did(s, "bundle", c, f, "")
      e == Did(d, "bundle.failed", c, f, "")
  IN CompileStage(d, c, f)
     \cup (IF s.faults > 0
           THEN {BundleFailure(Fault(e), "esbuild returned errors", c, f),
                 BundleFailure(Fault(e), "esbuild did not produce exactly 2 output files", c, f),
                 BundleFailure(Fault(d), "could not parse sourcemap", c, f)}
           ELSE {})

\* if target.IfNotExists: os.Stat(filename).
StatStage(s, c, f, t) ==
  IF ~t.IfNotExists THEN BundleStage(s, c, f)
  ELSE LET d == Did(s, "stat", c, f, "") IN
       (IF f \in s.exists
        THEN {Continue(Did(d, "skip", c, f, ""))}
        ELSE BundleStage(d, c, f))
       \cup (IF s.faults > 0 THEN {ReturnErr(Fault(d), "stat failed", c, f)} ELSE {})

\* The body of `for filename, target := range config.Generates`.
TargetBody(s, c, f, t) ==
  LET d == Did(s, "target", c, f, "") IN
  IF t.Module = ""
  THEN {Continue(AppendAndPrintError(d, "module is required", c, f))}
  ELSE StatStage(d, c, f, t)

----------------------------------------------------------------------------
(* Control flow of generate *)

\* Targets for which the post-format pass runs an external formatter.
FmtTodo(gens) == {f \in DOMAIN gens : ExternalFormatter(Ext(f)) # "none"}

\* Targets with runAfter commands.
CmdTodo(gens) == {f \in DOMAIN gens : gens[f].RunAfter > 0}

\* After the post-format loop: the post-commands loop, then `return merr`.
AfterFormat(gens) ==
  IF CmdTodo(gens) # {} THEN [pc |-> "postCommands", todo |-> CmdTodo(gens)]
  ELSE [pc |-> "return", todo |-> {}]

\* After the per-target loop: the post-format loop.
AfterTargets(gens) ==
  IF FmtTodo(gens) # {} THEN [pc |-> "postFormat", todo |-> FmtTodo(gens)]
  ELSE AfterFormat(gens)

\* The deferred j.Dispose() calls run, last pushed first, when generate
\* returns or panics.
RECURSIVE DisposeSessions(_, _, _)
DisposeSessions(ss, h, c) ==
  IF ss = <<>> THEN h
  ELSE DisposeSessions(Tail(ss), Bump(h, Ev("dispose", c, Head(ss), "")), c)

\* The tail of Run: the error Run returns for its merr and its err.
RunResult(m, err) ==
  IF m # NilErr
  THEN LET errors == IF IsErrorGroup(err)
                     THEN [i \in 1..Len(err) |-> <<err[i]>>]
                     ELSE <<m>>
       IN IF Len(errors) = 1 THEN errors[1] ELSE SummaryErr(Len(errors))
  ELSE NilErr

Gens == configs[ci]

Cur == GenState(merr, hist, sessions, prettier, exists, faults)

\* The variables a step of generate writes are set from s.
Store(s) ==
  /\ merr' = s.merr
  /\ hist' = s.hist
  /\ sessions' = s.sessions
  /\ prettier' = s.prettier
  /\ exists' = s.exists
  /\ faults' = s.faults

\* The loop goes on with the keys left, or control moves past it.
Goto(left, after) ==
  /\ pc' = IF left # {} THEN pc ELSE after.pc
  /\ todo' = IF left # {} THEN left ELSE after.todo

----------------------------------------------------------------------------
(* Actions *)

\* Run up to its loop: c.Config defaulted, readConfigs.
RunStart ==
  /\ entry = "run" /\ pc = "idle"
  /\ \/ /\ pc' = "loop"
        /\ UNCHANGED <<runErr, result, faults>>
     \/ /\ faults > 0
        /\ faults' = faults - 1
        /\ runErr' = NewErr("readConfigs failed", 0, "")
        /\ result' = runErr'
        /\ pc' = "done"
  /\ UNCHANGED NotGen
  /\ UNCHANGED <<entry, configs, ci, todo, cmdAt, merr, retval, runMerr,
                 sessions, prettier, exists, hist>>

\* generate is called for the next config: readFile(config.Spec),
\* getHomeDirectory().
GenerateBegin ==
  /\ pc = "loop" /\ ci < Len(configs)
  /\ ci' = ci + 1
  /\ merr' = NilErr
  /\ sessions' = <<>>
  /\ cmdAt' = <<"", 0>>
  /\ \/ /\ pc' = "perTarget"
        /\ todo' = DOMAIN configs[ci']
        /\ UNCHANGED <<retval, faults>>
     \/ /\ faults > 0
        /\ faults' = faults - 1
        /\ \E msg \in {"read spec failed", "no home directory"} :
             retval' = NewErr(msg, ci', "")
        /\ pc' = "return"
        /\ todo' = {}
  /\ UNCHANGED NotGen
  /\ UNCHANGED <<entry, configs, runMerr, runErr, result, prettier, exists, hist>>

\* One iteration of the per-target loop.
TargetStep ==
  /\ pc = "perTarget"
  /\ \E f \in todo : \E o \in TargetBody(Cur, ci, f, Gens[f]) :
       /\ Store(o.s)
       /\ CASE o.kind = "continue" ->
                 /\ Goto(todo \ {f}, AfterTargets(Gens))
                 /\ retval' = IF pc' = "return" THEN merr' ELSE retval
            [] o.kind = "return" ->
                 pc' = "return" /\ todo' = {} /\ retval' = o.ret
            [] o.kind = "panic" ->
                 pc' = "unwind" /\ todo' = {} /\ retval' = retval
  /\ UNCHANGED NotGen
  /\ UNCHANGED <<entry, configs, ci, cmdAt, runMerr, runErr, result>>

\* One iteration of the post-format loop that runs rustfmt, gofmt or yapf
\* (the iterations for other extensions do nothing).
PostFormatStep ==
  /\ pc = "postFormat"
  /\ \E f \in todo :
       LET d == Did(Cur, "extfmt", ci, f, ExternalFormatter(Ext(f))) IN
       /\ \/ Store(d)
          \/ /\ faults > 0
             /\ Store(AppendAndPrintError(Fault(d), "Error formatting", ci, f))
       /\ Goto(todo \ {f}, AfterFormat(Gens))
       /\ retval' = IF pc' = "return" THEN merr' ELSE retval
  /\ UNCHANGED NotGen
  /\ UNCHANGED <<entry, configs, ci, cmdAt, runMerr, runErr, result>>

\* The k-th runAfter command of target f failed.
CommandFailedEv(c, f, k) == [CommandEv(c, f, k) EXCEPT !.op = "command.failed"]

\* A pass that gives up its remaining commands after a failed one.
CommandsLeftNoneAfterFailure(td, f, last, failed) ==
  IF failed THEN {} ELSE IF last THEN td \ {f} ELSE td

\* The targets whose commands are still to run after a command of f: a
\* failed command goes on with the next one (continue, line 793).
CommandsLeft(td, f, last, failed) == IF last THEN td \ {f} ELSE td

\* One runAfter command of the post-commands loops: cmd.Run().
PostCommandStep ==
  /\ pc = "postCommands"
  /\ \E f \in todo, failed \in BOOLEAN :
       /\ cmdAt[1] \in {"", f}
       /\ failed => faults > 0
       /\ LET k == IF cmdAt[1] = f THEN cmdAt[2] ELSE 0
              d == [Cur EXCEPT !.hist = Bump(@, CommandEv(ci, f, k + 1))]
              e == [d EXCEPT !.hist = Bump(@, CommandFailedEv(ci, f, k + 1))]
              last == k + 1 = Gens[f].RunAfter
              left == CommandsLeft(todo, f, last, failed)
          IN /\ IF failed
                THEN Store(AppendAndPrintError(Fault(e), "Error running command", ci, f))
                ELSE Store(d)
             /\ cmdAt' = IF last \/ left = {} THEN <<"", 0>> ELSE <<f, k + 1>>
             /\ Goto(left, [pc |-> "return", todo |-> {}])
             /\ retval' = IF pc' = "return" THEN merr' ELSE retval
  /\ UNCHANGED NotGen
  /\ UNCHANGED <<entry, configs, ci, runMerr, runErr, result>>

\* generate returns (or panics) to Run's loop: the deferred Dispose calls
\* run, and Run appends a non-nil error to its merr.
RunGenerateReturn ==
  /\ entry = "run" /\ pc \in {"return", "unwind"}
  /\ sessions' = <<>>
  /\ IF pc = "return"
     THEN /\ hist' = DisposeSessions(sessions, hist, ci)
          /\ runMerr' = IF retval # NilErr THEN Append2(runMerr, retval) ELSE runMerr
          /\ pc' = "loop"
          /\ UNCHANGED prettier
     ELSE LET p == DisposePrettier(prettier, DisposeSessions(sessions, hist, ci)) IN
          /\ hist' = p.hist
          /\ prettier' = p.prettier
          /\ pc' = "crashed"
          /\ UNCHANGED runMerr
  /\ UNCHANGED NotGen
  /\ UNCHANGED <<entry, configs, ci, todo, cmdAt, merr, retval, runErr, result,
                 exists, faults>>

\* The tail of Run after the loop, and its deferred prettier.Dispose().
RunFinish ==
  /\ entry = "run" /\ pc = "loop" /\ ci = Len(configs)
  /\ result' = RunResult(runMerr, runErr)
  /\ LET p == DisposePrettier(prettier, hist) IN
       hist' = p.hist /\ prettier' = p.prettier
  /\ pc' = "done"
  /\ UNCHANGED NotGen
  /\ UNCHANGED <<entry, configs, ci, todo, cmdAt, merr, retval, runMerr, runErr,
                 sessions, exists, faults>>

\* `if g.generateConfig(config); err != nil { log.Printf(...) }`: the call
\* is the init statement of the if and its result is discarded; the
\* condition tests the err of WatchCmd.Run that the closure captures.
LogGenerateError(h, c, ret, captured) ==
  LET r == Bump(h, Ev("generateConfig", c, "", IF ret = NilErr THEN "nil" ELSE "error"))
  IN IF captured # NilErr THEN Bump(r, Ev("log", c, "", "Error running generate")) ELSE r

\* generate returns (or panics) to generateConfig, whose deferred function
\* disposes c.prettier; the watcher's handler goes on with its if statement.
GenerateConfigReturn ==
  /\ entry = "watch" /\ pc \in {"return", "unwind"}
  /\ sessions' = <<>>
  /\ LET p == DisposePrettier(prettier, DisposeSessions(sessions, hist, ci)) IN
       /\ hist' = IF pc = "return" THEN LogGenerateError(p.hist, ci, retval, werr)
                  ELSE p.hist
       /\ prettier' = p.prettier
  /\ pc' = IF pc = "return" THEN "loop" ELSE "crashed"
  /\ UNCHANGED NotGen
  /\ UNCHANGED <<entry, configs, ci, todo, cmdAt, merr, retval, runMerr, runErr,
                 result, exists, faults>>

\* The watcher's handler has called generateConfig for every config.
WatchFinish ==
  /\ entry = "watch" /\ pc = "loop" /\ ci = Len(configs)
  /\ pc' = "done"
  /\ UNCHANGED NotGen
  /\ UNCHANGED <<entry, configs, ci, todo, cmdAt, merr, retval, runMerr, runErr,
                 result, sessions, prettier, exists, faults, hist>>

----------------------------------------------------------------------------
(* The resolver callback (lines 639-681).  A path below the definitions    *)
(* directory is a sequence of segments and a segment a sequence of tokens, *)
(* a stem followed by its dot-extensions: <<"x", ".apex">> is x.apex.       *)

DotTokens == {".apex", ".txt"}

SegX == <<"x">>

SegXApex == <<"x", ".apex">>

SegXTxt == <<"x", ".txt">>

SegXTxtApex == <<"x", ".txt", ".apex">>

SegIndexApex == <<"index", ".apex">>

\* strings.Split(location, "/") of the logical paths the sandbox asks for.
Locations == {<<SegX>>, <<SegXApex>>, <<SegXTxt>>}

\* The paths the definitions directory may hold.
DefPaths ==
  {<<SegX>>, <<SegXApex>>, <<SegXTxt>>, <<SegXTxtApex>>,
   <<SegX, SegIndexApex>>, <<SegXTxt, SegIndexApex>>}

\* A directory tree: an entry exists only inside a directory.  "file.err" is
\* a regular file whose text begins with the characters "error: ".
FileSystems ==
  {fs \in [DefPaths -> {"absent", "file", "file.err", "dir"}] :
     \A q \in DefPaths :
       (Len(q) > 1 /\ fs[q] # "absent") => fs[SubSeq(q, 1, Len(q) - 1)] = "dir"}

\* filepath.Ext(path): from the last dot of the last element.
PathExt(path) ==
  LET seg == path[Len(path)]
  IN IF seg[Len(seg)] \in DotTokens THEN seg[Len(seg)] ELSE ""

\* path + suffix
AddSuffix(path, suffix) == [path EXCEPT ![Len(path)] = Append(@, suffix)]

\* filepath.Join(path, "index.apex")
JoinIndex(path) == Append(path, SegIndexApex)

\* os.Stat(path): the kind found, "absent" standing for the error.
Stat(fs, path) ==
  IF path \notin DOMAIN fs THEN "absent"
  ELSE IF fs[path] = "file.err" THEN "file" ELSE fs[path]

\* string(data) of os.ReadFile(path): the text of the file at path.
Contents(fs, path) ==
  IF fs[path] = "file.err" THEN <<"error: ", "contents of", path>>
  ELSE <<"contents of", path>>

\* An error string without the sentinel prefix.
ErrorStringBare(msg, path) == <<msg, path>>

\* The sentinel string for an error: "error: " and the message.
ErrorString(msg, path) == <<"error: ", msg, path>>

\* A resolution that probes the directory before the file with extension.
ResolveLocDirFirst(fs, loc) ==
  IF PathExt(loc) # ".apex"
  THEN IF Stat(fs, loc) = "dir" THEN [err |-> FALSE, loc |-> JoinIndex(loc)]
       ELSE IF Stat(fs, AddSuffix(loc, ".apex")) = "file"
            THEN [err |-> FALSE, loc |-> AddSuffix(loc, ".apex")]
            ELSE IF Stat(fs, loc) = "absent" THEN [err |-> TRUE, loc |-> loc]
                 ELSE [err |-> FALSE, loc |-> AddSuffix(loc, ".apex")]
  ELSE [err |-> FALSE, loc |-> loc]

\* The path the callback settles on for loc, or the stat error (649-671).
ResolveLoc(fs, loc) ==
  IF PathExt(loc) # ".apex"
  THEN LET specLoc == AddSuffix(loc, ".apex") IN
       IF Stat(fs, specLoc) = "file" THEN [err |-> FALSE, loc |-> specLoc]
       ELSE IF Stat(fs, loc) = "absent" THEN [err |-> TRUE, loc |-> loc]
            ELSE IF Stat(fs, loc) = "dir" THEN [err |-> FALSE, loc |-> JoinIndex(loc)]
                 ELSE [err |-> FALSE, loc |-> AddSuffix(loc, ".apex")]
  ELSE [err |-> FALSE, loc |-> loc]

\* One call of resolverCallback from the sandbox.
ResolverCallback ==
  /\ rpc = "ready"
  /\ rpc' = "done"
  /\ IF Len(rargs) < 1
     THEN /\ rret' = <<"error: ", "resolve: invalid arguments", <<>>>>
          /\ rreads' = rreads
     ELSE LET r == ResolveLoc(rfs, rargs[1]) IN
          IF r.err
          THEN /\ rret' = ErrorString("stat", r.loc)
               /\ rreads' = rreads
          ELSE /\ rreads' = Append(rreads, r.loc)
               /\ rret' = IF Stat(rfs, r.loc) = "file" THEN Contents(rfs, r.loc)
                          ELSE ErrorString("read", r.loc)
  /\ UNCHANGED <<rfs, rargs, rout>>
  /\ UNCHANGED NotRes

\* source.startsWith("error: ") on a string of tokens.
StartsWithError(source) == source # <<>> /\ source[1] = "error: "

\* source.substring(7): the string after the seven characters "error: ".
Substring7(source) == Tail(source)

\* What the script's resolver does with the callback's string (473-479).
ScriptOutcome(source) ==
  IF StartsWithError(source)
  THEN [kind |-> "throw", text |-> Substring7(source)]
  ELSE [kind |-> "source", text |-> source]

\* function resolver of the generated entry script, after the callback
\* has returned.
ScriptResolver ==
  /\ rpc = "done"
  /\ rpc' = "finished"
  /\ rout' = ScriptOutcome(rret)
  /\ UNCHANGED <<rfs, rargs, rret, rreads>>
  /\ UNCHANGED NotRes

NoOutcome == [kind |-> "none", text |-> <<>>]

ResIdle ==
  /\ rfs = <<>> /\ rargs = <<>> /\ rret = <<>> /\ rreads = <<>> /\ rpc = "off"
  /\ rout = NoOutcome

----------------------------------------------------------------------------
(* Astyle (astyle.go): one call into the wasm module.  A string is a       *)
(* sequence of characters, its UTF-8 form a sequence of bytes.             *)

AstChars == {"a", "eacute"}

\* []byte(c): the UTF-8 encoding of one character.
Utf8(c) == IF c = "a" THEN <<97>> ELSE <<195, 169>>

AstStrings == UNION {[1..n -> AstChars] : n \in 0..MaxStr}

RECURSIVE Bytes(_)
\* []byte(str)
Bytes(str) == IF str = <<>> THEN <<>> ELSE Utf8(Head(str)) \o Bytes(Tail(str))

\* mem.Size: room for the largest buffer and a result text after it.
MemSize == 4 * MaxStr + 10

NoPointer == -1

\* The memory before the call: zeroed, or filled with a non-zero byte.
Memories == {[a \in 0..(MemSize - 1) |-> b] : b \in {0, 7}}

\* A buffer size counted in characters.
BufferSizeInChars(source, options) == Len(source) + 1 + Len(options) + 1 + 4

\* bufferSize of line 54
BufferSize(source, options) == Len(Bytes(source)) + 1 + Len(Bytes(options)) + 1 + 4

\* mem.Write / mem.WriteByte: nothing is written when the range is outside.
MemWriteOK(off, bytes) == off + Len(bytes) <= MemSize

MemWrite(mem, off, bytes) ==
  IF MemWriteOK(off, bytes)
  THEN [a \in DOMAIN mem |->
          IF a >= off /\ a < off + Len(bytes) THEN bytes[a - off + 1] ELSE mem[a]]
  ELSE mem

\* The little-endian bytes of a 32-bit value.
Le32(v) == <<v % 256, (v \div 256) % 256, (v \div 65536) % 256, v \div 16777216>>

\* mem.ReadUint32Le
ReadUint32Le(mem, off) ==
  IF off + 4 <= MemSize
  THEN [ok |-> TRUE,
        v |-> mem[off] + 256 * mem[off + 1] + 65536 * mem[off + 2]
                + 16777216 * mem[off + 3]]
  ELSE [ok |-> FALSE, v |-> 0]

\* mem.Read(formattedPointer, mem.Size()-formattedPointer): the unsigned
\* difference wraps when the pointer is past the size, and the read fails.
ReadToEnd(mem, fp) ==
  IF fp <= MemSize
  THEN [ok |-> TRUE, buf |-> [i \in 1..(MemSize - fp) |-> mem[fp + i - 1]]]
  ELSE [ok |-> FALSE, buf |-> <<>>]

RECURSIVE ScanFrom(_, _)
\* for resultBuf[i] != 0 { i++ }: the final i, or -1 for the index panic.
ScanFrom(buf, i) ==
  IF i >= Len(buf) THEN -1
  ELSE IF buf[i + 1] = 0 THEN i ELSE ScanFrom(buf, i + 1)

\* The values of a returned (string, error).
AstRet(text, err, msg) == [text |-> text, err |-> err, msg |-> msg]

\* The pointers alloc_buffer may hand out: one whose buffer fits, one whose
\* buffer runs past the end of the memory.
AllocResults == {1, MemSize - 2}

\* What the format function may leave: a flag, a result pointer, a text.
FormatResults ==
  [flag : {0, 1}, fp : {0, MemSize - 2, MemSize, MemSize + 1}, text : {<<>>, <<97>>},
   nul : BOOLEAN]

\* Lines 18-50: runtime, module and exported functions.
AstyleSetup ==
  /\ apc = "start"
  /\ \/ /\ apc' = "alloc"
        /\ UNCHANGED <<aret, aclosed>>
     \/ \E e \in {"wasi", "compile", "instantiate", "missing export"} :
          /\ apc' = "returned"
          /\ aret' = AstRet(<<>>, e, <<>>)
          /\ aclosed' = (e = "missing export")
  /\ UNCHANGED <<asize, asrc, aopts, amem, abase, afp, aflag, abuf, atext, afrees,
                 alive, awrites>>
  /\ UNCHANGED NotAst

\* Lines 52-59: alloc.Call
AstyleAlloc ==
  /\ apc = "alloc"
  /\ asize' = BufferSize(asrc, aopts)
  /\ \/ /\ apc' = "returned"
        /\ aret' = AstRet(<<>>, "alloc", <<>>)
        /\ aclosed' = TRUE
        /\ UNCHANGED <<abase, alive>>
     \/ \E p \in AllocResults :
          /\ abase' = p
          /\ alive' = alive \cup {p}
          /\ apc' = "write"
          /\ UNCHANGED <<aret, aclosed>>
  /\ UNCHANGED <<asrc, aopts, amem, afp, aflag, abuf, atext, afrees, awrites>>
  /\ UNCHANGED NotAst

\* The four writes of lines 67-70 as <<offset, bytes>>.
InputWrites(base, source, options) ==
  LET resultPointer == base
      sourcePointer == resultPointer + 4
      optionsPointer == sourcePointer + Len(Bytes(source)) + 1
  IN << <<sourcePointer, Bytes(source)>>,
        <<sourcePointer + Len(Bytes(source)), <<0>> >>,
        <<optionsPointer, Bytes(options)>>,
        <<optionsPointer + Len(Bytes(options)), <<0>> >> >>

RECURSIVE MemWriteAll(_, _)
MemWriteAll(mem, ws) ==
  IF ws = <<>> THEN mem
  ELSE MemWriteAll(MemWrite(mem, Head(ws)[1], Head(ws)[2]), Tail(ws))

\* Lines 61-70
AstyleWrite ==
  /\ apc = "write"
  /\ awrites' = InputWrites(abase, asrc, aopts)
  /\ amem' = MemWriteAll(amem, InputWrites(abase, asrc, aopts))
  /\ apc' = "format"
  /\ UNCHANGED <<asize, asrc, aopts, abase, afp, aflag, abuf, atext, aret, afrees,
                 alive, aclosed>>
  /\ UNCHANGED NotAst

\* Lines 72-77: format.Call
AstyleFormat ==
  /\ apc = "format"
  /\ \/ /\ apc' = "returned"
        /\ aret' = AstRet(<<>>, "format", <<>>)
        /\ aclosed' = TRUE
        /\ UNCHANGED <<amem, aflag, alive>>
     \/ \E r \in FormatResults :
          /\ r.fp \notin alive
          /\ aflag' = r.flag
          /\ amem' = LET slot == MemWrite(amem, abase, Le32(r.fp))
                     IN IF r.fp = 0 THEN slot
                        ELSE MemWrite(slot, r.fp,
                                      r.text \o (IF r.nul THEN <<0>> ELSE <<>>))
          /\ alive' = IF r.fp = 0 THEN alive ELSE alive \cup {r.fp}
          /\ apc' = "readPointer"
          /\ UNCHANGED <<aret, aclosed>>
  /\ UNCHANGED <<asize, asrc, aopts, abase, afp, abuf, atext, afrees, awrites>>
  /\ UNCHANGED NotAst

\* Lines 79-82
AstyleReadPointer ==
  /\ apc = "readPointer"
  /\ LET r == ReadUint32Le(amem, abase) IN
       IF r.ok
       THEN /\ afp' = r.v
            /\ apc' = "readText"
            /\ UNCHANGED <<aret, aclosed>>
       ELSE /\ apc' = "returned"
            /\ aret' = AstRet(<<>>, "could not read result pointer", <<>>)
            /\ aclosed' = TRUE
            /\ UNCHANGED afp
  /\ UNCHANGED <<asize, asrc, aopts, amem, abase, aflag, abuf, atext, afrees, alive,
                 awrites>>
  /\ UNCHANGED NotAst

\* Lines 84-87
AstyleReadText ==
  /\ apc = "readText"
  /\ LET r == ReadToEnd(amem, afp) IN
       IF r.ok
       THEN /\ abuf' = r.buf
            /\ apc' = "scan"
            /\ UNCHANGED <<aret, aclosed>>
       ELSE /\ apc' = "returned"
            /\ aret' = AstRet(<<>>, "could not read formatted source", <<>>)
            /\ aclosed' = TRUE
            /\ UNCHANGED abuf
  /\ UNCHANGED <<asize, asrc, aopts, amem, abase, afp, aflag, atext, afrees, alive,
                 awrites>>
  /\ UNCHANGED NotAst

\* Lines 89-94
AstyleScan ==
  /\ apc = "scan"
  /\ LET i == ScanFrom(abuf, 0) IN
       IF i < 0
       THEN /\ apc' = "panicked"
            /\ aclosed' = TRUE
            /\ UNCHANGED atext
       ELSE /\ atext' = SubSeq(abuf, 1, i)
            /\ apc' = "free"
            /\ UNCHANGED aclosed
  /\ UNCHANGED <<asize, asrc, aopts, amem, abase, afp, aflag, abuf, aret, afrees,
                 alive, awrites>>
  /\ UNCHANGED NotAst

\* A release that leaves the module's own allocation alone.
FreedPointersBaseOnly(base, fp) == <<base>>

\* Lines 96-99: the pointers passed to free.Call, in order.
FreedPointers(base, fp) == <<base>> \o (IF fp # 0 THEN <<fp>> ELSE <<>>)

AstyleFree ==
  /\ apc = "free"
  /\ afrees' = afrees \o FreedPointers(abase, afp)
  /\ alive' = alive \ {FreedPointers(abase, afp)[i] :
                         i \in 1..Len(FreedPointers(abase, afp))}
  /\ apc' = "finish"
  /\ UNCHANGED <<asize, asrc, aopts, amem, abase, afp, aflag, abuf, atext, aret,
                 awrites, aclosed>>
  /\ UNCHANGED NotAst

\* A return that hands out the text whatever the flag says.
AstyleResultTextAlways(flag, text) ==
  AstRet(text, IF flag # 1 THEN "message" ELSE "nil", IF flag # 1 THEN text ELSE <<>>)

\* if !success { return "", errors.New(formattedSource) }; return
\* formattedSource, err
AstyleResult(flag, text) ==
  IF flag # 1 THEN AstRet(<<>>, "message", text) ELSE AstRet(text, "nil", <<>>)

\* Lines 101-105
AstyleFinish ==
  /\ apc = "finish"
  /\ aret' = AstyleResult(aflag, atext)
  /\ apc' = "returned"
  /\ aclosed' = TRUE
  /\ UNCHANGED <<asize, asrc, aopts, amem, abase, afp, aflag, abuf, atext, afrees,
                 alive, awrites>>
  /\ UNCHANGED NotAst

AstIdle ==
  /\ asrc = <<>> /\ aopts = <<>> /\ amem = <<>> /\ apc = "off" /\ asize = 0
  /\ abase = NoPointer /\ afp = NoPointer /\ aflag = 0 /\ abuf = <<>>
  /\ atext = <<>> /\ aret = AstRet(<<>>, "nil", <<>>) /\ afrees = <<>>
  /\ alive = {} /\ awrites = <<>> /\ aclosed = FALSE

----------------------------------------------------------------------------
(* translateStackTrace and translateLocation (lines 887-935).  A string is *)
(* a sequence of tokens; "bundle.js" is the two tokens "b", "undle.js" so  *)
(* that a slice one byte into it can be taken.                             *)

Digits == {"1", "2", "3", "4"}

\* strconv.Atoi of a string: the number, or -1 for the error.
Atoi(str) ==
  IF Len(str) = 1 /\ str[1] \in Digits
  THEN CASE str[1] = "1" -> 1 [] str[1] = "2" -> 2 [] str[1] = "3" -> 3
         [] str[1] = "4" -> 4
  ELSE -1

\* %d of a line or column number.
Itoa(n) == CASE n = 1 -> "1" [] n = 2 -> "2" [] n = 3 -> "3" [] n = 4 -> "4"

RECURSIVE SplitAt(_, _, _)
\* strings.Split(str, sep) for a one-token separator; cur is the part begun.
SplitAt(str, sep, cur) ==
  IF str = <<>> THEN <<cur>>
  ELSE IF Head(str) = sep THEN <<cur>> \o SplitAt(Tail(str), sep, <<>>)
       ELSE SplitAt(Tail(str), sep, Append(cur, Head(str)))

Split(str, sep) == SplitAt(str, sep, <<>>)

RECURSIVE Join(_, _)
\* strings.Join(parts, sep)
Join(parts, sep) ==
  IF Len(parts) = 0 THEN <<>>
  ELSE IF Len(parts) = 1 THEN parts[1]
       ELSE parts[1] \o <<sep>> \o Join(Tail(parts), sep)

RECURSIVE TrimRight(_)
\* strings.TrimRight(l, " \t")
TrimRight(l) ==
  IF l # <<>> /\ l[Len(l)] \in {" ", "\t"} THEN TrimRight(SubSeq(l, 1, Len(l) - 1))
  ELSE l

\* strings.LastIndex(l, "("), counted from 1; 0 when there is none.
LastIndexParen(l) ==
  LET at == {i \in 1..Len(l) : l[i] = "("}
  IN IF at = {} THEN 0 ELSE CHOOSE i \in at : \A j \in at : j <= i

\* strings.LastIndex(l, "bundle.js:"), counted from 1; 0 when there is none.
LastIndexBundle(l) ==
  LET at == {i \in 1..(Len(l) - 2) :
               l[i] = "b" /\ l[i + 1] = "undle.js" /\ l[i + 2] = ":"}
  IN IF at = {} THEN 0 ELSE CHOOSE i \in at : \A j \in at : j <= i

\* strings.HasSuffix(l, ")")
HasSuffixParen(l) == l # <<>> /\ l[Len(l)] = ")"

\* smap.Source(line, column): the entry of the source map, if any.
SmapSource(sm, line, column) ==
  LET hit == {e \in sm : e.gl = line /\ e.gc = column}
  IN IF hit = {} THEN [ok |-> FALSE]
     ELSE LET e == CHOOSE x \in hit : TRUE
          IN [ok |-> TRUE, source |-> e.source, l |-> e.l, c |-> e.c]

\* filepath.Abs(source): the working directory joined before a relative path.
FilepathAbs(source, cwdok) ==
  IF source[1] = "/" THEN [err |-> FALSE, path |-> source]
  ELSE IF cwdok THEN [err |-> FALSE, path |-> <<"/", "cwd/">> \o source]
       ELSE [err |-> TRUE, path |-> source]

\* translateLocation (912-935)
TranslateLocation(sm, cwdok, location) ==
  LET parts == Split(location, ":") IN
  IF Len(parts) # 3 THEN [ok |-> FALSE]
  ELSE IF Atoi(parts[2]) < 0 THEN [ok |-> FALSE]
  ELSE IF Atoi(parts[3]) < 0 THEN [ok |-> FALSE]
  ELSE LET r == SmapSource(sm, Atoi(parts[2]), Atoi(parts[3])) IN
       IF ~r.ok THEN [ok |-> FALSE]
       ELSE LET abs == FilepathAbs(r.source, cwdok)
            IN [ok |-> TRUE, source |-> IF abs.err THEN r.source ELSE abs.path,
                line |-> r.l, column |-> r.c]

\* fmt.Sprintf("%s(%s:%d:%d)", l, source, line, column)
SprintfFrame(l, t) ==
  l \o <<"(">> \o t.source \o <<":", Itoa(t.line), ":", Itoa(t.column), ")">>

\* loc := l[bundleIdx+1:] of line 903, the index counted from 1.
BundleLoc(l, bundleIdx) == SubSeq(l, bundleIdx + 1, Len(l))

\* The body of the loop of translateStackTrace for one line (890-908).
TranslateLine(sm, cwdok, line) ==
  LET l == TrimRight(line)
      idx == LastIndexParen(l)
      bundleIdx == LastIndexBundle(l)
  IN IF HasSuffixParen(l) /\ idx # 0
     THEN LET loc == SubSeq(l, idx + 1, Len(l) - 1)
              t == TranslateLocation(sm, cwdok, loc)
          IN IF t.ok THEN SprintfFrame(SubSeq(l, 1, idx - 1), t) ELSE line
     ELSE IF bundleIdx # 0
          THEN LET loc == BundleLoc(l, bundleIdx)
                   t == TranslateLocation(sm, cwdok, loc)
               IN IF t.ok THEN SprintfFrame(SubSeq(l, 1, bundleIdx - 1), t) ELSE line
          ELSE line

\* translateStackTrace (887-910)
TranslateStackTrace(sm, cwdok, stackTrace) ==
  LET lines == Split(stackTrace, "\n")
  IN Join([i \in 1..Len(lines) |->
             IF i = 1 THEN lines[i] ELSE TranslateLine(sm, cwdok, lines[i])],
          "\n")

\* Frame lines: "at ", a function name or none, the location in parentheses
\* or bare, with or without a directory, with trailing blanks or none.
FrameLocations ==
  {file \o pos :
     file \in {<<"b", "undle.js">>}, pos \in {<<":", "1", ":", "2">>, <<":", "x", ":", "2">>, <<":", "1">>}}
  \cup {<<"native">>}

FrameLines ==
  {<<"at ">> \o fn \o open \o dir \o loc \o close \o trail :
     fn \in {<<>>, <<"f ">>}, open \in {<<>>, <<"(">>}, dir \in {<<>>, <<"dir/">>},
     loc \in FrameLocations, close \in {<<>>, <<")">>}, trail \in {<<>>, <<" ">>}}

RECURSIVE StackTraces(_)
\* The exception message line followed by n frame lines.
StackTraces(n) ==
  IF n = 0 THEN {<<"Error: boom">>}
  ELSE {t \o <<"\n">> \o f : t \in StackTraces(n - 1), f \in FrameLines}

\* Source maps: empty, or mapping 1:2 of the bundle to a relative or an
\* absolute original file.
SourceMaps ==
  {{}} \cup
  {{[gl |-> 1, gc |-> 2, source |-> src, l |-> 3, c |-> 4]} :
     src \in {<<"src.ts">>, <<"/", "src.ts">>}}

\* One call of translateStackTrace.
TranslateCall ==
  /\ tpc = "ready"
  /\ tpc' = "done"
  /\ tout' = TranslateStackTrace(tsmap, tcwd, ttrace)
  /\ UNCHANGED <<ttrace, tsmap, tcwd>>
  /\ UNCHANGED NotTrace

TraceIdle ==
  /\ ttrace = <<>> /\ tsmap = {} /\ tcwd = TRUE /\ tout = <<>> /\ tpc = "off"

----------------------------------------------------------------------------
(* WatchCmd.Run (src/unnamed/part_000): reloadConfigs, syncWatchers and the  *)
(* handler of a write event on a config file.  What the handler generates   *)
(* is the subject of SpecWatch.                                             *)

\* c.Configs, made absolute.
ConfigFiles == <<"c1.yaml", "c2.yaml">>

\* filepath.Abs(config.Spec) of the documents.
SpecPaths == {"s1.apex", "s2.apex"}

\* What readConfigs returns for a config file: the Spec of each of its
\* documents, or an error.
FileContents ==
  {[ok |-> FALSE, specs |-> <<>>]}
  \cup {[ok |-> TRUE, specs |-> q] : q \in {<<s>> : s \in SpecPaths} \cup (SpecPaths \X SpecPaths)}

\* The error of a failed specWatcher.Add(spec).
AddFailed(spec) == NewErr("watch add failed", 0, spec)

\* The values the captured err can hold when a handler runs: nil, or the
\* error of a failed Add of the first syncWatchers call, whose result Run
\* ignores.
CapturedErrs == {NilErr} \cup {AddFailed(s) : s \in SpecPaths}

\* reloadConfigs from the i-th config file on: a failing readConfigs returns
\* with the entries made so far.
RECURSIVE ReloadFrom(_, _, _)
ReloadFrom(i, files, cm) ==
  IF i > Len(ConfigFiles) THEN [ok |-> TRUE, configs |-> cm]
  ELSE LET c == ConfigFiles[i] IN
       IF ~files[c].ok THEN [ok |-> FALSE, configs |-> cm]
       ELSE ReloadFrom(i + 1, files, cm @@ (c :> files[c].specs))

\* reloadConfigs: configs = make(map[string][]string), then the loop.
ReloadConfigs(files) == ReloadFrom(1, files, <<>>)

\* The orders in which `for _, specs := range configs` can visit the map.
RangeOrders(cm) ==
  {o \in [1..Cardinality(DOMAIN cm) -> DOMAIN cm] :
     \A i, j \in DOMAIN o : i # j => o[i] # o[j]}

\* The specs the two nested loops of syncWatchers visit, in order.
RECURSIVE SpecsInOrder(_, _)
SpecsInOrder(cm, order) ==
  IF order = <<>> THEN <<>>
  ELSE cm[Head(order)] \o SpecsInOrder(cm, Tail(order))

\* The goroutines of Run: the one that runs Run itself, and the one Run
\* starts (line 232) to handle the events of the two watchers.
Goroutines == {"main", "handler"}

\* No call of syncWatchers in progress on a goroutine.
NoSync == [specs |-> <<>>, cur |-> {}, rem |-> {}]

\* Where a goroutine goes on after its call of syncWatchers: Run ignores the
\* result and blocks on <-done; the handler returns on an error and
\* otherwise generates and selects again.
AfterSync(g, ok) ==
  IF g = "main" THEN "waiting" ELSE IF ok THEN "select" ELSE "stopped"

\* The tail of Run up to its call of syncWatchers (lines 299-305):
\* reloadConfigs(), result ignored, and the loaded config files are added
\* to configWatcher, from when on write events on them reach the handler.
MainReload ==
  /\ wpc["main"] = "start"
  /\ LET r == ReloadConfigs(wfiles) IN
       /\ wconfigs' = r.configs
       /\ cwatched' = DOMAIN r.configs
  /\ wpc' = [wpc EXCEPT !["main"] = "sync"]
  /\ UNCHANGED <<wfiles, watched, werr, wlast, wn, wlog, wsync>>
  /\ UNCHANGED NotWatch

\* A write event on a watched config file, whose new contents are text, is
\* taken by the handler: reloadConfigs; the handler returns when it fails.
ConfigWriteEvent ==
  /\ wpc["handler"] = "select" /\ wn < MaxReloads
  /\ wn' = wn + 1
  /\ \E c \in cwatched, text \in FileContents :
       /\ wfiles' = [wfiles EXCEPT ![c] = text]
       /\ LET r == ReloadConfigs(wfiles') IN
            /\ wconfigs' = r.configs
            /\ wpc' = [wpc EXCEPT !["handler"] = IF r.ok THEN "sync" ELSE "stopped"]
  /\ wlast' = "none"
  /\ UNCHANGED <<cwatched, watched, werr, wlog, wsync>>
  /\ UNCHANGED NotWatch

\* syncWatchers starts on a goroutine (lines 203-209): currentSpecs and
\* removeSpecs are made from specWatcher.WatchList(), and the range over
\* configs takes the map that is loaded now, in one of its orders.
SyncBegin ==
  \E g \in Goroutines :
    /\ wpc[g] = "sync"
    /\ \E order \in RangeOrders(wconfigs) :
         wsync' = [wsync EXCEPT ![g] = [specs |-> SpecsInOrder(wconfigs, order),
                                        cur |-> watched, rem |-> watched]]
    /\ wpc' = [wpc EXCEPT ![g] = "loop"]
    /\ UNCHANGED <<wfiles, wconfigs, cwatched, watched, werr, wlast, wn, wlog>>
    /\ UNCHANGED NotWatch

\* One iteration of the inner loop of syncWatchers (lines 210-219): a spec
\* in currentSpecs is taken out of removeSpecs; another one is logged and
\* added to the watcher, and a failing Add ends the call.
SyncVisit ==
  \E g \in Goroutines :
    /\ wpc[g] = "loop" /\ wsync[g].specs # <<>>
    /\ LET s == wsync[g]
           spec == Head(s.specs)
       IN IF spec \in s.cur
          THEN /\ wsync' = [wsync EXCEPT ![g] = [s EXCEPT !.specs = Tail(@),
                                                            !.rem = @ \ {spec}]]
               /\ UNCHANGED <<watched, werr, wlast, wlog, wpc>>
          ELSE /\ wlog' = wlog \cup {<<"Watching", spec>>}
               /\ \/ /\ watched' = watched \cup {spec}
                     /\ werr' = NilErr
                     /\ wsync' = [wsync EXCEPT ![g] = [s EXCEPT !.specs = Tail(@),
                                                                  !.cur = @ \cup {spec}]]
                     /\ UNCHANGED <<wlast, wpc>>
                  \/ /\ werr' = AddFailed(spec)
                     /\ wlast' = "err"
                     /\ wsync' = [wsync EXCEPT ![g] = NoSync]
                     /\ wpc' = [wpc EXCEPT ![g] = AfterSync(g, FALSE)]
                     /\ UNCHANGED watched
    /\ UNCHANGED <<wfiles, wconfigs, cwatched, wn>>
    /\ UNCHANGED NotWatch

\* The last loop of syncWatchers (lines 222-227) and `return nil`: what is
\* left in removeSpecs is logged and removed from the watcher.
SyncEnd ==
  \E g \in Goroutines :
    /\ wpc[g] = "loop" /\ wsync[g].specs = <<>>
    /\ watched' = watched \ wsync[g].rem
    /\ wlog' = wlog \cup {<<"Unwatching", name>> : name \in wsync[g].rem}
    /\ wlast' = "ok"
    /\ wsync' = [wsync EXCEPT ![g] = NoSync]
    /\ wpc' = [wpc EXCEPT ![g] = AfterSync(g, TRUE)]
    /\ UNCHANGED <<wfiles, wconfigs, cwatched, werr, wn>>
    /\ UNCHANGED NotWatch

WatchIdle ==
  /\ wfiles = <<>> /\ wconfigs = <<>> /\ cwatched = {} /\ watched = {}
  /\ wlast = "none" /\ wpc = [g \in Goroutines |-> "off"] /\ wn = 0 /\ wlog = {}
  /\ wsync = [g \in Goroutines |-> NoSync]

----------------------------------------------------------------------------
(* InstallCmd.extractZip and extractTarball (src/unnamed/part_002).  A     *)
(* cleaned absolute path is the sequence of its elements below the root;   *)
(* an entry name is a sequence of elements with or without a leading "/".  *)

\* Entry names: one to MaxElems elements, each a name or "..", relative or
\* absolute.
EntryNames ==
  [abs : BOOLEAN, els : UNION {[1..n -> {"a", ".."}] : n \in 1..MaxElems}]

\* Archive entries: a directory, a regular file, or another type (a link).
Entries == [name : EntryNames, type : {"dir", "reg", "link"}]

\* filepath.Clean of an absolute path given by its raw elements: ".."
\* removes the element before it, and is dropped at the root.
RECURSIVE Clean(_, _)
Clean(els, acc) ==
  IF els = <<>> THEN acc
  ELSE Clean(Tail(els),
             IF Head(els) = ".."
             THEN (IF acc = <<>> THEN <<>> ELSE SubSeq(acc, 1, Len(acc) - 1))
             ELSE Append(acc, Head(els)))

\* filepath.Join(dest, name): the two joined by a separator (a leading "/"
\* of name doubles it), then cleaned.
FilepathJoin(dest, name) == Clean(dest \o name.els, <<>>)

\* filepath.Dir of a cleaned absolute path.
FilepathDir(path) == IF path = <<>> THEN <<>> ELSE SubSeq(path, 1, Len(path) - 1)

\* strings.HasPrefix(fpath, filepath.Clean(dest)+string(os.PathSeparator))
HasDestPrefix(fpath, dest) ==
  Len(fpath) > Len(dest) /\ SubSeq(fpath, 1, Len(dest)) = dest

\* One iteration of the loop of extractZip: the entries made and whether
\* the loop goes on, for an entry e and an environment whose calls succeed
\* (io) or fail.
ExtractZipEntry(e, dest, io) ==
  LET fpath == FilepathJoin(dest, e.name) IN
  IF ~HasDestPrefix(fpath, dest) THEN [made |-> {}, ok |-> FALSE]
  ELSE IF e.type = "dir" THEN [made |-> IF io THEN {fpath} ELSE {}, ok |-> TRUE]
       ELSE IF io THEN [made |-> {FilepathDir(fpath), fpath}, ok |-> TRUE]
            ELSE [made |-> {}, ok |-> FALSE]

\* One iteration of the loop of extractTarball; present: os.Stat finds the
\* directory.  The root is a directory, so OpenFile fails on it.
ExtractTarEntry(e, dest, io, present) ==
  LET target == FilepathJoin(dest, e.name) IN
  CASE e.type = "dir" ->
         IF present THEN [made |-> {}, ok |-> TRUE]
         ELSE IF io THEN [made |-> {target}, ok |-> TRUE]
              ELSE [made |-> {}, ok |-> FALSE]
    [] e.type = "reg" ->
         IF io /\ target # <<>>
         THEN [made |-> (IF present THEN {} ELSE {FilepathDir(target)}) \cup {target},
               ok |-> TRUE]
         ELSE [made |-> {}, ok |-> FALSE]
    [] OTHER -> [made |-> {}, ok |-> TRUE]

\* The loop of extractZip handles the next entry of r.File.
ExtractZipStep ==
  /\ xkind = "zip" /\ xret = "running" /\ xi < Len(xentries)
  /\ xi' = xi + 1
  /\ \E io \in BOOLEAN :
       LET r == ExtractZipEntry(xentries[xi'], xdest, io) IN
       /\ xmade' = xmade \cup r.made
       /\ xret' = IF r.ok THEN "running" ELSE "err"
  /\ UNCHANGED <<xkind, xdest, xentries>>
  /\ UNCHANGED NotExtract

\* The loop of extractTarball handles the header tr.Next() returned.  The
\* root directory is always present.
ExtractTarStep ==
  /\ xkind = "tar" /\ xret = "running" /\ xi < Len(xentries)
  /\ xi' = xi + 1
  /\ \E io \in BOOLEAN, present \in BOOLEAN :
       LET e == xentries[xi']
           target == FilepathJoin(xdest, e.name)
           r == ExtractTarEntry(e, xdest, io, present)
       IN /\ (IF e.type = "dir" THEN target ELSE FilepathDir(target)) = <<>> => present
          /\ xmade' = xmade \cup r.made
          /\ xret' = IF r.ok THEN "running" ELSE "err"
  /\ UNCHANGED <<xkind, xdest, xentries>>
  /\ UNCHANGED NotExtract

\* After the last entry: `return nil` of extractZip, and in extractTarball
\* tr.Next() returns io.EOF (return nil) or another error.
ExtractReturn ==
  /\ xret = "running" /\ xi = Len(xentries)
  /\ xret' \in IF xkind = "tar" THEN {"nil", "err"} ELSE {"nil"}
  /\ UNCHANGED <<xkind, xdest, xentries, xi, xmade>>
  /\ UNCHANGED NotExtract

ExtractIdle ==
  /\ xkind = "none" /\ xdest = <<>> /\ xentries = <<>> /\ xi = 0 /\ xmade = {}
  /\ xret = "off"

----------------------------------------------------------------------------
(* Idle values of GenerateCmd for the other specifications *)

GenIdle ==
  /\ entry = "none" /\ configs = <<>> /\ ci = 0 /\ pc = "off" /\ todo = {}
  /\ cmdAt = <<"", 0>> /\ merr = NilErr /\ retval = NilErr /\ runMerr = NilErr
  /\ runErr = NilErr /\ result = NilErr /\ sessions = <<>>
  /\ prettier = [once |-> FALSE, ptr |-> "nil"] /\ exists = {} /\ faults = 0
  /\ hist = <<>>

----------------------------------------------------------------------------
(* The config merge of generate (lines 587-595 and 692-699).  A Go map is  *)
(* [nil, m]: the nil map, or a map object with the entries m.               *)

\* Config keys and values the model draws from.
Keys == {"k1", "k2", "$filename"}

Vals == {"v1", "v2"}

NilMap == [nil |-> TRUE, m |-> <<>>]

MakeMap(m) == [nil |-> FALSE, m |-> m]

GoMaps == {NilMap} \cup {MakeMap(m) : m \in UNION {[K -> Vals] : K \in SUBSET Keys}}

\* m[k] = v on a map object.
Put(m, k, v) == [x \in DOMAIN m \cup {k} |-> IF x = k THEN v ELSE m[x]]

\* for k, v := range src { dst[k] = v }, key by key.
RECURSIVE PutAll(_, _, _)
PutAll(dst, src, ks) ==
  IF ks = {} THEN dst
  ELSE LET k == CHOOSE x \in ks : TRUE
       IN PutAll(Put(dst, k, src[k]), src, ks \ {k})

\* "Merge global config into target config": target.Config after the loop
\* that copies the shared entries the target does not define.
MergeGlobal(sh, tc) ==
  LET start == IF tc.nil /\ ~sh.nil THEN MakeMap(<<>>) ELSE tc
      missing == {k \in DOMAIN sh.m : k \notin DOMAIN start.m}
  IN IF missing = {} THEN start
     ELSE MakeMap(PutAll(start.m, sh.m, missing))

\* A build of configMap that copies the shared entries last.
BuildConfigMapSharedLast(sh, tc, f) ==
  Put(PutAll(PutAll(<<>>, tc.m, DOMAIN tc.m), sh.m, DOMAIN sh.m), "$filename", f)

\* A build of configMap that sets the reserved key first.
BuildConfigMapFilenameFirst(sh, tc, f) ==
  PutAll(PutAll(Put(<<>>, "$filename", f), sh.m, DOMAIN sh.m), tc.m, DOMAIN tc.m)

\* configMap: the shared entries, then the target's, then "$filename".
BuildConfigMap(sh, tc, f) ==
  Put(PutAll(PutAll(<<>>, sh.m, DOMAIN sh.m), tc.m, DOMAIN tc.m), "$filename", f)

\* What the loaded Config holds for the target after the merge: the loop
\* variable target is a copy of the map entry, so a map made for a nil
\* target.Config is not stored, while writes to an existing map object are
\* writes to the loaded Config's map.
StoredAfterMerge(sh, tc) == IF tc.nil THEN tc ELSE MergeGlobal(sh, tc)

\* generate gets to j.Invoke for the target: merge, build, invoke.
MergeAndInvoke ==
  /\ calls < MaxCalls
  /\ LET merged == MergeGlobal(shared, tconf) IN
       /\ configMap' = MakeMap(BuildConfigMap(shared, merged, tfile))
       /\ tconf' = StoredAfterMerge(shared, tconf)
  /\ calls' = calls + 1
  /\ UNCHANGED <<shared, loaded, tfile>>
  /\ UNCHANGED NotMerge

MergeIdle ==
  /\ shared = NilMap /\ tconf = NilMap /\ loaded = NilMap
  /\ tfile = "" /\ configMap = NilMap /\ calls = 0

InitMerge ==
  /\ GenIdle
  /\ ResIdle
  /\ AstIdle
  /\ TraceIdle
  /\ WatchIdle /\ werr = NilErr
  /\ ExtractIdle
  /\ shared \in GoMaps
  /\ tconf \in GoMaps
  /\ loaded = tconf
  /\ tfile \in Files
  /\ configMap = NilMap
  /\ calls = 0

InitResolver ==
  /\ GenIdle
  /\ MergeIdle
  /\ AstIdle
  /\ TraceIdle
  /\ WatchIdle /\ werr = NilErr
  /\ ExtractIdle
  /\ rfs \in FileSystems
  /\ rargs \in {<<>>} \cup {<<l>> : l \in Locations}
  /\ rret = <<>>
  /\ rreads = <<>>
  /\ rpc = "ready"
  /\ rout = NoOutcome

NextResolver ==
  \/ ResolverCallback
  \/ ScriptResolver

InitAstyle ==
  /\ GenIdle
  /\ MergeIdle
  /\ ResIdle
  /\ TraceIdle
  /\ WatchIdle /\ werr = NilErr
  /\ ExtractIdle
  /\ asrc \in AstStrings
  /\ aopts \in AstStrings
  /\ amem \in Memories
  /\ apc = "start"
  /\ asize = 0
  /\ abase = NoPointer /\ afp = NoPointer /\ aflag = 0 /\ abuf = <<>>
  /\ atext = <<>> /\ aret = AstRet(<<>>, "nil", <<>>) /\ afrees = <<>>
  /\ alive = {} /\ awrites = <<>> /\ aclosed = FALSE

NextAstyle ==
  \/ AstyleSetup
  \/ AstyleAlloc
  \/ AstyleWrite
  \/ AstyleFormat
  \/ AstyleReadPointer
  \/ AstyleReadText
  \/ AstyleScan
  \/ AstyleFree
  \/ AstyleFinish

InitTrace ==
  /\ GenIdle
  /\ MergeIdle
  /\ ResIdle
  /\ AstIdle
  /\ WatchIdle /\ werr = NilErr
  /\ ExtractIdle
  /\ ttrace \in UNION {StackTraces(n) : n \in 0..MaxFrames}
  /\ tsmap \in SourceMaps
  /\ tcwd \in BOOLEAN
  /\ tout = <<>>
  /\ tpc = "ready"

----------------------------------------------------------------------------
(* Specifications *)

InitGenOver(e, start, lists) ==
  /\ entry = e
  /\ configs \in lists
  /\ ci = 0
  /\ pc = start
  /\ todo = {}
  /\ cmdAt = <<"", 0>>
  /\ merr = NilErr
  /\ retval = NilErr
  /\ runMerr = NilErr
  /\ runErr = NilErr
  /\ result = NilErr
  /\ sessions = <<>>
  /\ prettier = [once |-> FALSE, ptr |-> "nil"]
  /\ exists \in SUBSET StatFiles(configs)
  /\ faults = MaxFaults
  /\ hist = <<>>
  /\ MergeIdle
  /\ ResIdle
  /\ AstIdle
  /\ TraceIdle
  /\ WatchIdle
  /\ werr \in IF e = "watch" THEN CapturedErrs ELSE {NilErr}
  /\ ExtractIdle

InitGen(e, start) == InitGenOver(e, start, ConfigLists)

\* `apex generate`: GenerateCmd.Run on a config file.
Init == InitGen("run", "idle")

\* Run on a config file with one document and up to MaxRunAfter commands.
InitOne ==
  InitGenOver("run", "idle", {<<g>> : g \in GeneratesSet(MaxTargets, MaxRunAfter)})

\* Run on a config file with one document and one target, of any extension.
InitDispatch ==
  InitGenOver("run", "idle", {<<(f :> t)>> : f \in AllFiles, t \in Targets})

Next ==
  \/ RunStart
  \/ GenerateBegin
  \/ TargetStep
  \/ PostFormatStep
  \/ PostCommandStep
  \/ RunGenerateReturn
  \/ RunFinish

Spec == Init /\ [][Next]_vars

\* GenerateCmd.Run over one config document with several commands.
SpecOne == InitOne /\ [][Next]_vars

\* GenerateCmd.Run over one target of each destination extension.
SpecDispatch == InitDispatch /\ [][Next]_vars

\* `apex watch`: the handler of one write event, which makes a GenerateCmd
\* and calls generateConfig for each config of the event.
InitWatch == InitGen("watch", "loop")

NextWatch ==
  \/ GenerateBegin
  \/ TargetStep
  \/ PostFormatStep
  \/ PostCommandStep
  \/ GenerateConfigReturn
  \/ WatchFinish

SpecWatch == InitWatch /\ [][NextWatch]_vars

InitSync ==
  /\ GenIdle
  /\ MergeIdle
  /\ ResIdle
  /\ AstIdle
  /\ TraceIdle
  /\ ExtractIdle
  /\ wfiles \in [{ConfigFiles[i] : i \in 1..Len(ConfigFiles)} -> FileContents]
  /\ wconfigs = <<>>
  /\ cwatched = {}
  /\ watched = {}
  /\ werr = NilErr
  /\ wlast = "none"
  /\ wpc = [g \in Goroutines |-> IF g = "main" THEN "start" ELSE "select"]
  /\ wn = 0
  /\ wlog = {}
  /\ wsync = [g \in Goroutines |-> NoSync]

NextSync ==
  \/ MainReload
  \/ ConfigWriteEvent
  \/ SyncBegin
  \/ SyncVisit
  \/ SyncEnd

\* `apex watch`: the watch lists over the config reloads of one run.
SpecSync == InitSync /\ [][NextSync]_vars

InitExtract ==
  /\ GenIdle
  /\ MergeIdle
  /\ ResIdle
  /\ AstIdle
  /\ TraceIdle
  /\ WatchIdle /\ werr = NilErr
  /\ xkind \in {"zip", "tar"}
  /\ xdest = <<"d">>
  /\ xentries \in UNION {[1..n -> Entries] : n \in 0..MaxEntries}
  /\ xi = 0
  /\ xmade = {}
  /\ xret = "running"

NextExtract ==
  \/ ExtractZipStep
  \/ ExtractTarStep
  \/ ExtractReturn

\* One call of extractZip or extractTarball, for every archive.
SpecExtract == InitExtract /\ [][NextExtract]_vars

\* The config merge, for every shared and target config map.
SpecMerge == InitMerge /\ [][MergeAndInvoke]_vars

\* One call of Astyle, for every source, options and module behaviour.
SpecAstyle == InitAstyle /\ [][NextAstyle]_vars

\* One call of translateStackTrace, for every trace and source map.
SpecTrace == InitTrace /\ [][TranslateCall]_vars

\* The resolver callback, for every definitions directory and location.
SpecResolver == InitResolver /\ [][NextResolver]_vars

----------------------------------------------------------------------------
(* Claims about GenerateCmd *)

\* generate is not running: it has not been called yet or has returned.
GenerateIdle == pc \in {"idle", "loop", "done", "crashed"}

\* The errors generate gave up with before looking at any target.
SetupErrors ==
  {NewErr(msg, ci, "") : msg \in {"read spec failed", "no home directory"}}

Attempts(c, f) == Count(hist, Ev("target", c, f, ""))

CommandRuns(c, f, k) == Count(hist, CommandEv(c, f, k))

\* C1: when Run has aggregated N >= 2 failures it returns the count summary
\* for N, and when it has aggregated exactly one it returns that failure.
C1_RunReturnsSummaryOrSole ==
  (entry = "run" /\ pc = "done" /\ runErr = NilErr) =>
    /\ (Len(runMerr) >= 2 => result = SummaryErr(Len(runMerr)))
    /\ (Len(runMerr) = 1 => result = runMerr)

\* C2: when generate returns, every target of the config has been attempted
\* exactly once and every runAfter command has been run exactly once.
C2_EveryTargetAndCommandOnce ==
  (pc = "return" /\ retval \notin SetupErrors) =>
    \A f \in DOMAIN Gens :
      /\ Attempts(ci, f) = 1
      /\ \A k \in 1..Gens[f].RunAfter : CommandRuns(ci, f, k) = 1

\* C3: when the bundler fails for a target (errors, or a wrong number of
\* output files), the failure is one of the errors generate returns, every
\* other target is still processed, and the post-format and post-command
\* passes still run.
C3_BundleFailureAbortsOnlyItsTarget ==
  \A f \in Files :
    (pc = "return" /\ Count(hist, Ev("bundle.failed", ci, f, "")) > 0) =>
      /\ \E i \in 1..Len(retval) : retval[i].file = f /\ retval[i].cfg = ci
      /\ \A g \in DOMAIN Gens : Attempts(ci, g) = 1
      /\ \A g \in FmtTodo(Gens) :
           Count(hist, Ev("extfmt", ci, g, ExternalFormatter(Ext(g)))) = 1
      /\ \A g \in DOMAIN Gens : \A k \in 1..Gens[g].RunAfter : CommandRuns(ci, g, k) = 1

Compiled(c, f) == Count(hist, Ev("session", c, f, ""))

Disposed(c, f) == Count(hist, Ev("dispose", c, f, ""))

\* C5: every per-target session js.Compile returned has been disposed
\* exactly once when generate has returned (or unwound), and never before.
C5_SessionsDisposedOnceOnReturn ==
  \A c \in Docs : \A f \in Files :
    /\ Compiled(c, f) <= 1
    /\ Disposed(c, f) = IF GenerateIdle \/ c < ci THEN Compiled(c, f) ELSE 0

\* C5 witness: generate returned early because the bundler failed for a
\* later target, and the session of an earlier target has been disposed.
C5_Witness ==
  /\ pc = "loop"
  /\ \E f \in Files, g \in Files :
       /\ f # g
       /\ Compiled(ci, f) = 1 /\ Disposed(ci, f) = 1
       /\ Count(hist, Ev("bundle.failed", ci, g, "")) = 1

PrettierDisposes ==
  Count(hist, Ev("prettier.dispose", 0, "", "live"))
  + Count(hist, Ev("prettier.dispose", 0, "", "disposed"))

\* C6: on one GenerateCmd the formatter session is created at most once,
\* disposed at most once, and never invoked after it was disposed.
C6_FormatterSessionLifecycle ==
  /\ Count(hist, Ev("prettier.compile", 0, "", "ok")) <= 1
  /\ PrettierDisposes <= 1
  /\ Count(hist, Ev("prettier.invoke", 0, "", "disposed")) = 0

\* C9: a target skipped because ifNotExists is set and its file exists gets
\* no bundle, sandbox, formatter or write step, its file is not touched by
\* any pass, and no error is collected for it.
C9_SkippedTargetUntouched ==
  \A c \in Docs : \A f \in Files :
    Count(hist, Ev("skip", c, f, "")) > 0 =>
      /\ \A op \in {"bundle", "compile", "invoke", "mkdir", "write"} :
           Count(hist, Ev(op, c, f, "")) = 0
      /\ Count(hist, Ev("format", c, f, Formatter(Ext(f)))) = 0
      /\ Count(hist, Ev("extfmt", c, f, ExternalFormatter(Ext(f)))) = 0
      /\ \A e \in DOMAIN hist :
           ~(e.op = "print" /\ e.cfg = c /\ e.file = f /\ e.arg # "Error running command")

\* C13: when a runAfter command fails in the post-commands pass, its error
\* is in the aggregate generate returns and every runAfter command of every
\* target has still been run, exactly once.
C13_FailedCommandDoesNotStopLater ==
  pc = "return" =>
    \A f \in DOMAIN Gens : \A k \in 1..Gens[f].RunAfter :
      Count(hist, CommandFailedEv(ci, f, k)) > 0 =>
        /\ \E i \in 1..Len(retval) :
             retval[i] = NewErr("Error running command", ci, f)[1]
        /\ \A g \in DOMAIN Gens : \A j \in 1..Gens[g].RunAfter :
             CommandRuns(ci, g, j) = 1

\* C13 witness: the first of two commands of a target failed and the second
\* was run after it.
C13_Witness ==
  /\ pc = "return"
  /\ \E f \in DOMAIN Gens :
       /\ Gens[f].RunAfter = 2
       /\ Count(hist, CommandFailedEv(ci, f, 1)) = 1
       /\ CommandRuns(ci, f, 2) = 1

\* The file of target f of config c was written in this invocation.
Written(c, f) ==
  /\ Count(hist, Ev("write", c, f, "")) > 0
  /\ Count(hist, Ev("print", c, f, "Error writing file")) = 0

\* C14: the post-format pass starts the external formatter on a target's
\* file only if that file was generated and written in this invocation.
C14_ExternalFormatterOnlyOnWritten ==
  \A c \in Docs : \A f \in Files :
    Count(hist, Ev("extfmt", c, f, ExternalFormatter(Ext(f)))) > 0 => Written(c, f)

\* The failure e was printed by appendAndPrintError.
Printed(e) == Count(hist, Ev("print", e.cfg, e.file, e.msg)) > 0

\* C15: when Run returns, every failure in the aggregate it reports has
\* been printed.
C15_EveryReportedFailurePrinted ==
  (entry = "run" /\ pc = "done") =>
    \A i \in 1..Len(runMerr) : Printed(runMerr[i])

\* C16: for a target rejected because its module is empty, the validation
\* error is in generate's aggregate and no bundle, sandbox session,
\* formatter call or file write is performed for that target.
C16_EmptyModuleOnlyAddsError ==
  \A c \in Docs : \A f \in Files :
    Count(hist, Ev("print", c, f, "module is required")) > 0 =>
      /\ (c = ci /\ pc \in {"perTarget", "postFormat", "postCommands"}) =>
           \E i \in 1..Len(merr) : merr[i] = NewErr("module is required", c, f)[1]
      /\ \A op \in {"bundle", "compile", "session", "invoke", "mkdir", "write"} :
           Count(hist, Ev(op, c, f, "")) = 0
      /\ Count(hist, Ev("format", c, f, Formatter(Ext(f)))) = 0
      /\ Count(hist, Ev("extfmt", c, f, ExternalFormatter(Ext(f)))) = 0

\* A step of one of the kinds ops happens in the transition.
Starts(ops) ==
  \E e \in DOMAIN hist' : e.op \in ops /\ Count(hist', e) > Count(hist, e)

\* Some step of one of the kinds ops has happened.
Happened(ops) == \E e \in DOMAIN hist : e.op \in ops

\* C19: in one invocation of Run no external formatter starts before every
\* target of every config document has had its per-target step, no
\* post-command starts before every external formatter pass is over, and no
\* target is bundled, executed or written once a post-format or
\* post-command step has run.
C19_PhasesInOrder ==
  [][/\ Starts({"extfmt"}) =>
          \A c \in 1..Len(configs) : \A f \in DOMAIN configs[c] : Attempts(c, f) > 0
     /\ Starts({"command"}) =>
          \A c \in 1..Len(configs) : \A f \in FmtTodo(configs[c]) :
            Count(hist, Ev("extfmt", c, f, ExternalFormatter(Ext(f)))) > 0
     /\ Starts({"bundle", "invoke", "write"}) => ~Happened({"extfmt", "command"})]_vars

\* The sessions of generate that are compiled and not yet disposed.
LiveSessions == {cf \in Docs \X Files : Compiled(cf[1], cf[2]) > Disposed(cf[1], cf[2])}

\* C21: during generate at most one per-target session is live (compiled
\* and not yet disposed) at any time; the session of a target is disposed
\* before the session of the next target is compiled.
C21_AtMostOneSessionLive == Cardinality(LiveSessions) <= 1

NonString(c, f) == Count(hist, Ev("result.nonstring", c, f, "")) > 0

\* C22: when the sandbox's generate function returns a value that is not a
\* string, generate records an aggregated error for that target and goes on
\* with the next target; it does not crash and writes no file for it.
C22_NonStringResultIsAnError ==
  \A c \in Docs : \A f \in Files :
    NonString(c, f) =>
      /\ pc \notin {"unwind", "crashed"}
      /\ Count(hist, Ev("write", c, f, "")) = 0
      /\ c = ci /\ pc \in {"perTarget", "postFormat", "postCommands", "return"} =>
           \E i \in 1..Len(merr) : merr[i].cfg = c /\ merr[i].file = f

PrettierCompileFailed == Count(hist, Ev("prettier.compile", 0, "", "failed")) > 0

\* C25: if creating the formatter session fails on the first
\* formatTypeScript call, no later call on that GenerateCmd uses the missing
\* session (every call returns an error), and Run and generateConfig do not
\* dispose a session that was never created.
C25_FailedFormatterSessionNeverUsed ==
  PrettierCompileFailed =>
    /\ Count(hist, Ev("prettier.invoke", 0, "", "nil")) = 0
    /\ Count(hist, Ev("prettier.dispose", 0, "", "nil")) = 0
    /\ pc \notin {"unwind", "crashed"}

\* C26: when js.Compile fails, the isolate and context it created are
\* released before it returns the error; a failed Compile leaves no live
\* isolate behind.
C26_FailedCompileReleasesIsolate ==
  \A c \in Docs : \A f \in Files :
    Count(hist, Ev("compile.failed", c, f, "")) > 0 =>
      Disposed(c, f) >= Count(hist, Ev("compile", c, f, ""))

\* The formatter each destination extension is to be passed through.
DispatchTable(ext) ==
  CASE ext \in {".java", ".c", ".cpp", ".c++", ".h", ".hpp", ".h++", ".m"} -> "astyle.google"
    [] ext = ".cs" -> "astyle.cs"
    [] ext = ".ts" -> "prettier"
    [] OTHER -> "none"

\* C27: a target whose filename ends in .java, .c, .cpp, .c++, .h, .hpp,
\* .h++ or .m has its generated text passed through Astyle with the google
\* options before it is written, a .cs target through Astyle with the C#
\* options, a .ts target through the formatter session, and a target of any
\* other extension is written unformatted.
C27_FormatterByExtension ==
  \A f \in AllFiles :
    LET claimed == DispatchTable(Ext(f)) IN
    /\ \A fm \in {"astyle.google", "astyle.cs", "prettier"} :
         Count(hist, Ev("format", 1, f, fm)) > 0 => fm = claimed
    /\ (Count(hist, Ev("write", 1, f, "")) > 0 /\ claimed # "none") =>
         Count(hist, Ev("format", 1, f, claimed)) = 1

----------------------------------------------------------------------------
(* Claims about the config map *)

UserKeys == Keys \ {"$filename"}

\* C7: in the map passed to the sandbox every key other than "$filename"
\* carries the target's value when the target's config has it, the shared
\* value when only the shared config has it, and there is no other key;
\* for nil and non-nil shared and target maps.
C7_MergedConfigTargetWins ==
  calls > 0 =>
    /\ \A k \in UserKeys :
         /\ k \in DOMAIN loaded.m =>
              k \in DOMAIN configMap.m /\ configMap.m[k] = loaded.m[k]
         /\ (k \notin DOMAIN loaded.m /\ k \in DOMAIN shared.m) =>
              k \in DOMAIN configMap.m /\ configMap.m[k] = shared.m[k]
    /\ DOMAIN configMap.m \subseteq
         DOMAIN loaded.m \cup DOMAIN shared.m \cup {"$filename"}

\* C7 witness: a map was built for a target whose config and the shared
\* config hold the same key with different values.
C7_Witness ==
  /\ calls > 0
  /\ \E k \in UserKeys :
       /\ k \in DOMAIN loaded.m /\ k \in DOMAIN shared.m
       /\ loaded.m[k] # shared.m[k]
       /\ configMap.m[k] = loaded.m[k]

\* C8: the map passed to the sandbox always has the key "$filename" and its
\* value is the target's destination filename, also when the shared or the
\* target config define "$filename".
C8_FilenameKeyInjected ==
  calls > 0 =>
    /\ "$filename" \in DOMAIN configMap.m
    /\ configMap.m["$filename"] = tfile

\* C8 witness: a map was built where both the shared and the target config
\* define "$filename".
C8_Witness ==
  /\ calls > 0
  /\ "$filename" \in DOMAIN loaded.m
  /\ "$filename" \in DOMAIN shared.m
  /\ configMap.m["$filename"] = tfile

\* C20: generate leaves the loaded Config as it was: the shared config map
\* and the target's own config map hold the keys and values they had
\* before the call.
C20_LoadedConfigUnchanged ==
  calls > 0 => tconf = loaded

----------------------------------------------------------------------------
(* Claims about the resolver callback *)

\* C10: for a location without the .apex extension where location.apex is a
\* file and location is a directory, the callback reads and returns
\* location.apex only; location/index.apex is read only when location.apex
\* is no file and location is a directory.
C10_ResolverPrefersFileWithExtension ==
  (rpc = "done" /\ Len(rargs) = 1 /\ PathExt(rargs[1]) # ".apex") =>
    LET path == rargs[1]
        withExt == AddSuffix(path, ".apex")
    IN /\ (Stat(rfs, withExt) = "file" /\ Stat(rfs, path) = "dir") =>
            rreads = <<withExt>> /\ rret = Contents(rfs, withExt)
       /\ (\E i \in 1..Len(rreads) : rreads[i] = JoinIndex(path)) =>
            Stat(rfs, withExt) # "file" /\ Stat(rfs, path) = "dir"

\* C10 witness: x.apex, the directory x and x/index.apex all exist and the
\* callback answered a request for x from x.apex.
C10_Witness ==
  /\ rpc = "done"
  /\ rargs = << <<SegX>> >>
  /\ rfs[<<SegXApex>>] = "file"
  /\ rfs[<<SegX>>] = "dir"
  /\ rfs[<<SegX, SegIndexApex>>] = "file"
  /\ rreads = << <<SegXApex>> >>
  /\ rret = Contents(rfs, <<SegXApex>>)

\* The host could not answer: no argument, a failed stat, or a failed read.
HostFailed ==
  \/ Len(rargs) < 1
  \/ rreads = <<>>
  \/ Stat(rfs, rreads[Len(rreads)]) # "file"

\* C11: when the callback has no argument or cannot stat or read the file,
\* it returns "error: " followed by the message, and the script's resolver
\* throws exactly the text after the prefix and returns no source text.
C11_HostFailureIsThrown ==
  (rpc = "finished" /\ HostFailed) =>
    /\ rret # <<>> /\ rret[1] = "error: "
    /\ rret[2] \in {"resolve: invalid arguments", "stat", "read"}
    /\ rout.kind = "throw"
    /\ <<"error: ">> \o rout.text = rret

\* C11 witness: the read of the resolved file failed and the script threw
\* the message.
C11_Witness ==
  /\ rpc = "finished"
  /\ rreads # <<>>
  /\ Stat(rfs, rreads[Len(rreads)]) # "file"
  /\ rout = [kind |-> "throw", text |-> <<"read", rreads[Len(rreads)]>>]

\* C24: a resolution that succeeds on the host is never turned into a
\* failure: for every definition file the callback reads successfully,
\* whatever its contents (also contents that begin with "error: "), the
\* script's resolver returns the contents verbatim and does not throw.
C24_SuccessfulReadReturnedVerbatim ==
  (rpc = "finished" /\ ~HostFailed) =>
    rout = [kind |-> "source", text |-> Contents(rfs, rreads[Len(rreads)])]

----------------------------------------------------------------------------
(* Claims about translateStackTrace *)

\* The shape of a frame line: its location in trailing parentheses, or bare
\* as the last word of the line; before and after are the text around it.
FrameShape(line) ==
  LET l == TrimRight(line)
      opens == {i \in 1..Len(l) : l[i] = "("}
      closes == {i \in 1..Len(l) : l[i] = ")"}
      words == {i \in 1..Len(l) : l[i] \in {"at ", "f "}}
      start == CHOOSE i \in words : \A j \in words : j <= i
  IN IF Cardinality(opens) = 1 /\ closes = {Len(l)}
     THEN LET o == CHOOSE i \in opens : TRUE
          IN [kind |-> "paren", before |-> SubSeq(l, 1, o),
              loc |-> SubSeq(l, o + 1, Len(l) - 1), after |-> <<")">>]
     ELSE IF opens = {} /\ closes = {}
          THEN [kind |-> "bare", before |-> SubSeq(l, 1, start),
                loc |-> SubSeq(l, start + 1, Len(l)), after |-> <<>>]
          ELSE [kind |-> "other", before |-> l, loc |-> <<>>, after |-> <<>>]

\* The entries of the source map a location file:line:column names.
EntriesAt(loc) ==
  LET parts == Split(loc, ":")
  IN IF Len(parts) = 3
     THEN {e \in tsmap : Atoi(parts[2]) = e.gl /\ Atoi(parts[3]) = e.gc}
     ELSE {}

\* originalFile:originalLine:originalColumn, the file absolute when possible.
OriginalTriple(e) ==
  (IF e.source[1] # "/" /\ tcwd THEN <<"/", "cwd/">> ELSE <<>>)
    \o e.source \o <<":", Itoa(e.l), ":", Itoa(e.c)>>

\* What the claim expects of line i of the result.
FrameTranslated(inLine, outLine) ==
  LET sh == FrameShape(inLine) IN
  IF sh.kind = "other" THEN TRUE
  ELSE IF EntriesAt(sh.loc) = {} THEN outLine = inLine
       ELSE \E e \in EntriesAt(sh.loc) :
              TrimRight(outLine) = sh.before \o OriginalTriple(e) \o sh.after

\* C12: translateStackTrace keeps the number of lines and the first line;
\* a later frame whose location is no file:line:column or is not in the
\* source map is unchanged; a later frame whose location resolves has the
\* location replaced by originalFile:originalLine:originalColumn.
C12_FramesTranslated ==
  tpc = "done" =>
    LET ins == Split(ttrace, "\n")
        outs == Split(tout, "\n")
    IN /\ Len(outs) = Len(ins)
       /\ outs[1] = ins[1]
       /\ \A i \in 2..Len(ins) : FrameTranslated(ins[i], outs[i])

----------------------------------------------------------------------------
(* Claims about Astyle *)

\* How often free_buffer was called on p.
Frees(p) == Cardinality({i \in 1..Len(afrees) : afrees[i] = p})

\* C4: when Astyle returns after alloc_buffer gave it a base pointer,
\* free_buffer has been called exactly once on the base pointer and exactly
\* once on a non-zero result pointer, and nothing the module allocated is
\* still allocated.
C4_BuffersFreedOnEveryExit ==
  (apc = "returned" /\ abase # NoPointer) =>
    /\ Frees(abase) = 1
    /\ (afp # NoPointer /\ afp # 0) => Frees(afp) = 1
    /\ alive = {}

\* The addresses from p on that hold a NUL byte.
NulsFrom(p) == {a \in p..(MemSize - 1) : amem[a] = 0}

\* The NUL-terminated text at p, when NulsFrom(p) is not empty.
TextAt(p) ==
  LET end == CHOOSE a \in NulsFrom(p) : \A b \in NulsFrom(p) : a <= b
  IN [i \in 1..(end - p) |-> amem[p + i - 1]]

\* The format function returned normally and Astyle has returned.
ReturnedAfterFormat ==
  apc = "returned" /\ aret.err \notin {"wasi", "compile", "instantiate",
                                      "missing export", "alloc", "format"}

RECURSIVE ByteLen(_)
\* The length of a string in UTF-8: one byte for "a", two for "eacute".
ByteLen(str) ==
  IF str = <<>> THEN 0
  ELSE (IF Head(str) = "a" THEN 1 ELSE 2) + ByteLen(Tail(str))

\* The addresses write w covers.
Covered(w) == w[1]..(w[1] + Len(w[2]) - 1)

C23_ScanStaysInsideMemory ==
  /\ apc = "scan" => \E i \in 1..Len(abuf) : abuf[i] = 0
  /\ apc # "panicked"

----------------------------------------------------------------------------
(* Claims about the watcher *)

\* The generations of the handler that returned an error, and the
\* "Error running generate" messages logged.
FailedGenerations(c) == Count(hist, Ev("generateConfig", c, "", "error"))

LoggedGenerations(c) == Count(hist, Ev("log", c, "", "Error running generate"))

\* C28: in watch mode every generation that returns an error is logged
\* ("Error running generate: ..."), and no such message is logged for a
\* generation that succeeded.
C28_FailedGenerationLogged ==
  \A c \in Docs : LoggedGenerations(c) = FailedGenerations(c)

\* The spec files the loaded configs refer to.
Referenced(cm) == UNION {{cm[c][i] : i \in 1..Len(cm[c])} : c \in DOMAIN cm}

\* No call of syncWatchers is in progress.
NoSyncRunning == \A g \in Goroutines : wpc[g] \notin {"sync", "loop"}

\* C29: after every successful syncWatchers call the paths watched by the
\* spec watcher are exactly the spec files the loaded configs refer to:
\* every referenced spec is watched, and every path watched before that is
\* no longer referenced has been removed, after any sequence of config
\* reloads that add and remove specs (stated for the runs in which the
\* handler has not returned after a failure).
C29_WatchListMatchesConfigs ==
  (wlast = "ok" /\ NoSyncRunning /\ wpc["handler"] # "stopped") =>
    watched = Referenced(wconfigs)

----------------------------------------------------------------------------
(* Claims about archive extraction *)

\* path is dest or lies below it.
UnderDest(path, dest) ==
  Len(path) >= Len(dest) /\ SubSeq(path, 1, Len(dest)) = dest

\* C30: extraction never creates or overwrites a file or directory outside
\* the destination directory: for every entry name, also one with ".."
\* elements or an absolute one, extractZip and extractTarball write only
\* below dest or return an error without writing the entry.
C30_ExtractionStaysUnderDest ==
  \A path \in xmade : UnderDest(path, xdest)

====
